---- MODULE Spec2Model ----
(***************************************************************************)
(* A model of savestate_util.py: the SavableState checkpoint record (load, *)
(* identity check, write-temp-then-rename save) and the image memoisation  *)
(* layered on it.                                                          *)
(*                                                                         *)
(* A Python dict is a TLA+ function whose DOMAIN is the dict's key set.    *)
(* A file is a record [kind, data]: absent, partial (a truncated pickle    *)
(* stream) or full (a complete pickle stream).                             *)
(***************************************************************************)
EXTENDS Integers, Sequences, FiniteSets, TLC

\* ------------------------------------------------------------- bounds

\* Values the pipeline stores in its own (schema-free) field "x": 1..MaxVal.
MaxVal == 1

\* The clock readings of a run: 0..MaxClock seconds.
MaxClock == 1

\* ------------------------------------------------------------- universe

\* The name __init__ generates when no input_file is given
\* ('savedata_{date}.pkl'); one clock reading is modelled.
GenName == "savedata_ts.pkl"

\* Checkpoint paths a caller may pass. The generated default name is an
\* ordinary path too. None of them is the temporary file of save_data, which
\* is the separate variable temp.
Paths == {"run.pkl", GenName}

Vals == 1..MaxVal

Verbosities == {-1, 0, 1}

EmptyDict == <<>>

\* ------------------------------------------------------------- files

AbsentFile == [kind |-> "absent", data |-> <<>>]
PartialFile == [kind |-> "partial", data |-> <<>>]
FullFile(bytes) == [kind |-> "full", data |-> bytes]

\* ------------------------------------------------------------- pickle

\* The order in which the items of a record are written to the stream.
FieldOrder == <<"data_file", "ligands_data", "x">>

\* self.__dict__ : dict(self), the plain mapping of the record's items.
dict_of(r) == [k \in DOMAIN r |-> r[k]]

\* d.items(): the (key, value) pairs of d.
dict_items(d) ==
    LET ks == SelectSeq(FieldOrder, LAMBDA k : k \in DOMAIN d)
    IN  [i \in 1..Len(ks) |-> <<ks[i], d[ks[i]]>>]

\* Mutant: the dump writes the data_file item only.
pickle_dump_header_only(d) ==
    dict_items([k \in DOMAIN d \cap {"data_file"} |-> d[k]])

\* pickle.dump(d): the stream of the items of d.
pickle_dump(d) == dict_items(d)

\* pickle.load(stream): the mapping the items of the stream describe.
pickle_load(bytes) ==
    LET keys == {bytes[i][1] : i \in 1..Len(bytes)}
    IN  [k \in keys |-> bytes[CHOOSE i \in 1..Len(bytes) : bytes[i][1] = k][2]]

\* for key, value in saved_data.items(): setattr(self, key, value)
RECURSIVE setattr_all(_, _, _)
setattr_all(r, items, n) ==
    IF n > Len(items) THEN r
    ELSE setattr_all([k \in DOMAIN r \cup {items[n][1]} |->
                        IF k = items[n][1] THEN items[n][2] ELSE r[k]],
                     items, n + 1)

\* ------------------------------------------------------------- state

VARIABLES
    pc,       \* position of the process: "none" (no SavableState object: not
              \* started, exited, or the constructor raised), "idle" (between
              \* calls), "save_open", "save_dump", "save_replace" (in save_data)
    rec,      \* the SavableState record (a dict); EmptyDict when pc = "none"
    disk,     \* the file at each checkpoint path
    temp,     \* the file '.temp_pickle_test.pkl'
    call,     \* the call in progress, or the last call made
    result,   \* how the last call ended
    log,      \* the severities os_util.local_print was called with in the call
    disk0,    \* history: disk when the running/last save_data was entered
    snap,     \* history: [path, data] the running/last save_data set out to write
    written,  \* history: path -> the record a successful save_data last put there
    booted,   \* history: the paths whose file is the one the bootstrap created
    renders,  \* history: the renderer invocations of the running/last call
    molcalls, \* history: molecule -> its update_mol_image calls on this record so far
    usd,      \* the UserStorageDirectory object: [path], or NoUsd before construction
    fs,       \* the files and directory trees by path (those of the storage directory)
    clock,    \* the wall clock, in seconds
    ucall,    \* the UserStorageDirectory call made last
    uresult   \* how that call ended: "True" or the exception raised

\* The variables of the SavableState part and of the storage directory part.
statevars == <<pc, rec, disk, temp, call, result, log, disk0, snap, written,
               booted, renders, molcalls>>
dirvars == <<usd, fs, clock, ucall, uresult>>

vars == <<statevars, dirvars>>

\* No UserStorageDirectory object, no call made yet.
NoUsd == [path |-> <<>>]
NoUCall == [op |-> "none", name |-> <<>>, stamp |-> 0]

\* The storage directory part before anything is constructed.
DirInit ==
    /\ usd = NoUsd
    /\ fs = EmptyDict
    /\ clock = 0
    /\ ucall = NoUCall
    /\ uresult = "none"

NoSnap == [path |-> "", data |-> <<>>]

\* A call: the operation and its arguments (those it does not take are left
\* at their defaults), and whether an image call found its cache filled.
NoCall == [op |-> "none", path |-> "", verbosity |-> 0,
           a |-> "", b |-> "", core |-> "", save |-> FALSE, hit |-> FALSE]

CallInit(p, v) == [NoCall EXCEPT !.op = "init", !.path = p, !.verbosity = v]
CallSave(p) == [NoCall EXCEPT !.op = "save_data", !.path = p]
CallSet(k) == [NoCall EXCEPT !.op = "setattr", !.path = k]
CallMol(m, sv, h) ==
    [NoCall EXCEPT !.op = "update_mol_image", !.a = m, !.save = sv, !.hit = h]
CallPert(ma, mb, c, sv, h) ==
    [NoCall EXCEPT !.op = "update_pertubation_image",
                   !.a = ma, !.b = mb, !.core = c, !.save = sv, !.hit = h]

SaveSteps == {"save_open", "save_dump", "save_replace"}

\* Files found on disk before the program first runs: nothing, a pickle that
\* is no checkpoint (it has no data_file item), or a checkpoint that was
\* written under some path (possibly another one: the user moved it).
InitialFiles ==
    {AbsentFile, FullFile(pickle_dump([x |-> 1]))}
    \cup {FullFile(pickle_dump([data_file |-> q])) : q \in Paths}

Init ==
    /\ pc = "none"
    /\ rec = EmptyDict
    /\ disk \in [Paths -> InitialFiles]
    /\ temp = AbsentFile
    /\ call = NoCall
    /\ result = "none"
    /\ log = {}
    /\ disk0 = disk
    /\ snap = NoSnap
    /\ written = EmptyDict
    /\ booted = {}
    /\ renders = <<>>
    /\ molcalls = EmptyDict
    /\ DirInit

\* ------------------------------------------------------------- __init__

\* Mutant: the missing file is created before data_file is assigned.
read_data_dump_first(input_file, d) ==
    CASE d[input_file].kind = "absent" ->
            [error |-> "none", data |-> [data_file |-> input_file],
             disk |-> [d EXCEPT ![input_file] = FullFile(pickle_dump(EmptyDict))]]
      [] d[input_file].kind = "partial" ->
            [error |-> "UnpicklingError", data |-> EmptyDict, disk |-> d]
      [] OTHER ->
            [error |-> "none", data |-> pickle_load(d[input_file].data), disk |-> d]

\* _read_data(input_file): [error, data, disk] - the mapping read, the
\* exception raised instead, and the disk afterwards. A missing file is
\* created holding the record as it is then: data_file = input_file only.
read_data(input_file, d) ==
    CASE d[input_file].kind = "absent" ->
            LET self == [data_file |-> input_file]
            IN  [error |-> "none", data |-> dict_of(self),
                 disk |-> [d EXCEPT ![input_file] = FullFile(pickle_dump(dict_of(self)))]]
      [] d[input_file].kind = "partial" ->
            [error |-> "UnpicklingError", data |-> EmptyDict, disk |-> d]
      [] OTHER ->
            [error |-> "none", data |-> pickle_load(d[input_file].data), disk |-> d]

\* The exception the except-AttributeError handler of __init__ ends with.
\* Its local_print call formats self.data_file, the attribute whose absence
\* brought control here: evaluating the argument raises AttributeError again,
\* before local_print is called and before ValueError is raised.
init_handler_error(self) ==
    IF "data_file" \in DOMAIN self THEN "ValueError" ELSE "AttributeError"

\* Whether the handler gets as far as calling local_print (severity error).
init_handler_log(self) ==
    IF "data_file" \in DOMAIN self THEN {"error"} ELSE {}

\* Mutant: the warning test without the verbosity condition.
init_warns_always(self, input_file, verbosity) ==
    self["data_file"] # input_file

\* The warning test of __init__: the stored name differs and verbosity >= 0.
init_warns(self, input_file, verbosity) ==
    self["data_file"] # input_file /\ verbosity >= 0

\* The record __init__ leaves when the loaded mapping has a data_file.
init_record(self, input_file) ==
    [k \in DOMAIN self |-> IF k = "data_file" THEN input_file ELSE self[k]]

\* __init__(input_file, verbosity): [error, rec, log, disk].
init_outcome(input_file, verbosity, d) ==
    IF input_file = ""
    THEN [error |-> "none", rec |-> [data_file |-> GenName], log |-> {}, disk |-> d]
    ELSE
        LET rd == read_data(input_file, d)
            self == setattr_all(EmptyDict, dict_items(rd.data), 1)
        IN  IF rd.error # "none"
            THEN [error |-> rd.error, rec |-> EmptyDict, log |-> {}, disk |-> rd.disk]
            ELSE IF "data_file" \in DOMAIN self
            THEN [error |-> "none",
                  rec |-> init_record(self, input_file),
                  log |-> IF init_warns(self, input_file, verbosity)
                          THEN {"warning"} ELSE {},
                  disk |-> rd.disk]
            ELSE [error |-> init_handler_error(self), rec |-> EmptyDict,
                  log |-> init_handler_log(self), disk |-> rd.disk]

Construct(input_file, verbosity) ==
    /\ pc \in {"none", "idle"}
    /\ LET o == init_outcome(input_file, verbosity, disk)
       IN  /\ pc' = IF o.error = "none" THEN "idle" ELSE "none"
           /\ rec' = o.rec
           /\ disk' = o.disk
           /\ result' = IF o.error = "none" THEN "ok" ELSE o.error
           /\ log' = o.log
           /\ booted' = booted \cup {p \in Paths : o.disk[p] # disk[p]}
    /\ call' = CallInit(input_file, verbosity)
    /\ disk0' = disk
    /\ snap' = NoSnap
    /\ renders' = <<>>
    /\ molcalls' = EmptyDict
    /\ UNCHANGED <<temp, written>>
    /\ UNCHANGED dirvars

\* ------------------------------------------------------------- fields

\* The pipeline assigns a field of the record (the record is an open mapping).
SetField(k, v) ==
    /\ pc = "idle"
    /\ rec' = [f \in DOMAIN rec \cup {k} |-> IF f = k THEN v ELSE rec[f]]
    /\ call' = CallSet(k)
    /\ result' = "ok"
    /\ log' = {}
    /\ disk0' = disk
    /\ snap' = NoSnap
    /\ renders' = <<>>
    /\ UNCHANGED <<pc, disk, temp, written, booted, molcalls>>
    /\ UNCHANGED dirvars

\* The pipeline deletes its own field x.
DelField ==
    /\ pc = "idle"
    /\ "x" \in DOMAIN rec
    /\ rec' = [f \in DOMAIN rec \ {"x"} |-> rec[f]]
    /\ call' = CallSet("x")
    /\ result' = "ok"
    /\ log' = {}
    /\ disk0' = disk
    /\ snap' = NoSnap
    /\ renders' = <<>>
    /\ UNCHANGED <<pc, disk, temp, written, booted, molcalls>>
    /\ UNCHANGED dirvars

\* ------------------------------------------------------------- save_data

\* Mutant: output_file names the file of this save only; data_file is kept.
save_target_keeps(self, output_file) == self

\* if output_file != '': self.data_file = output_file
save_target(self, output_file) ==
    IF output_file # ""
    THEN [k \in DOMAIN self \cup {"data_file"} |->
            IF k = "data_file" THEN output_file ELSE self[k]]
    ELSE self

\* Entry of save_data, up to the try.
save_data(output_file) ==
    /\ pc = "idle"
    /\ rec' = save_target(rec, output_file)
    /\ pc' = "save_open"
    /\ call' = CallSave(output_file)
    /\ result' = "running"
    /\ log' = {}
    /\ disk0' = disk
    /\ snap' = [path |-> rec'["data_file"], data |-> pickle_dump(dict_of(rec'))]
    /\ renders' = <<>>
    /\ UNCHANGED <<disk, temp, written, booted, molcalls>>
    /\ UNCHANGED dirvars

\* Mutant: the handler logs the error and returns False to the caller.
SaveExit_returns ==
    /\ pc' = "idle"
    /\ result' = "False"
    /\ log' = log \cup {"error"}
    /\ UNCHANGED <<rec, call, disk0, snap, written, booted, renders, molcalls>>

\* except (IOError, FileNotFoundError): local_print(error); raise SystemExit(1)
SaveExit ==
    /\ pc' = "none"
    /\ rec' = EmptyDict
    /\ result' = "SystemExit(1)"
    /\ log' = log \cup {"error"}
    /\ UNCHANGED <<call, disk0, snap, written, booted, renders, molcalls>>

\* Mutant: the save opens the checkpoint file itself for writing.
open_in_place(d, t, self) ==
    [disk |-> [d EXCEPT ![self["data_file"]] = PartialFile], temp |-> t]

\* The files after open('.temp_pickle_test.pkl', 'wb') succeeded: the
\* temporary file exists and is empty; no checkpoint file is touched.
open_temp(d, t, self) == [disk |-> d, temp |-> PartialFile]

\* open('.temp_pickle_test.pkl', 'wb'): the file is created or truncated;
\* or the open fails and nothing was written.
SaveOpenTemp ==
    /\ pc = "save_open"
    /\ \/ /\ temp' = open_temp(disk, temp, rec).temp
          /\ disk' = open_temp(disk, temp, rec).disk
          /\ pc' = "save_dump"
          /\ UNCHANGED <<rec, call, result, log, disk0, snap, written, booted, renders, molcalls>>
       \/ /\ UNCHANGED <<temp, disk>>
          /\ SaveExit
    /\ UNCHANGED dirvars

\* Mutant: the dump leaves the data_file item out.
temp_contents_no_name(self) ==
    FullFile(pickle_dump([k \in DOMAIN self \ {"data_file"} |-> self[k]]))

\* What the dump writes into the temporary file.
temp_contents(self) == FullFile(pickle_dump(dict_of(self)))

\* pickle.dump(self.__dict__, file_handler); os.fsync(...); close: the
\* stream is complete on disk; or an I/O error leaves it truncated.
SaveDumpTemp ==
    /\ pc = "save_dump"
    /\ \/ /\ temp' = temp_contents(rec)
          /\ pc' = "save_replace"
          /\ UNCHANGED <<rec, disk, call, result, log, disk0, snap, written, booted, renders, molcalls>>
       \/ /\ temp' = PartialFile
          /\ UNCHANGED disk
          /\ SaveExit
    /\ UNCHANGED dirvars

\* The value the running call returns once the save has succeeded.
save_return(c) == IF c.op = "save_data" THEN "True" ELSE "None"

\* The disk after os.replace(src, dst) of an existing src.
os_replace(d, src, dst) == [d EXCEPT ![dst] = src]

\* os.replace('.temp_pickle_test.pkl', self.data_file); FileNotFoundError is
\* logged and raised again to the caller.
SaveReplace ==
    /\ pc = "save_replace"
    /\ pc' = "idle"
    /\ IF temp.kind = "absent"
       THEN /\ result' = "FileNotFoundError"
            /\ log' = log \cup {"error"}
            /\ UNCHANGED <<disk, temp, written, booted>>
       ELSE /\ disk' = os_replace(disk, temp, rec["data_file"])
            /\ temp' = AbsentFile
            /\ result' = save_return(call)
            /\ log' = log \cup {"debug"}
            /\ written' = [p \in DOMAIN written \cup {rec["data_file"]} |->
                             IF p = rec["data_file"] THEN rec ELSE written[p]]
            /\ booted' = booted \ {rec["data_file"]}
    /\ UNCHANGED <<rec, call, disk0, snap, renders, molcalls>>
    /\ UNCHANGED dirvars

\* Environment: the temporary file is removed by someone else before the
\* rename (the case the FileNotFoundError handler of save_data is for).
TempVanishes ==
    /\ pc = "save_replace"
    /\ temp.kind # "absent"
    /\ temp' = AbsentFile
    /\ UNCHANGED <<pc, rec, disk, call, result, log, disk0, snap, written, booted, renders, molcalls>>
    /\ UNCHANGED dirvars

\* Environment: the process is stopped in the middle of a save.
Kill ==
    /\ pc \in SaveSteps
    /\ pc' = "none"
    /\ rec' = EmptyDict
    /\ result' = "killed"
    /\ UNCHANGED <<disk, temp, call, log, disk0, snap, written, booted, renders, molcalls>>
    /\ UNCHANGED dirvars

\* ------------------------------------------------------------- images

\* Ligand names with a record in ligands_data, and the names a caller may
\* pass: "Z" never has a record.
Mols == {"A", "B"}
Names == Mols \cup {"Z"}

\* Common-core SMARTS strings; NoCore is core_smarts=None.
Cores == {"c1", "c2"}
NoCore == ""

\* d[k] = v
dict_set(d, k, v) == [j \in DOMAIN d \cup {k} |-> IF j = k THEN v ELSE d[j]]

\* d.setdefault(k, v)
setdefault(d, k, v) == IF k \in DOMAIN d THEN d ELSE dict_set(d, k, v)

\* d.update(e)
dict_update(d, e) ==
    [j \in DOMAIN d \cup DOMAIN e |-> IF j \in DOMAIN e THEN e[j] ELSE d[j]]

\* The rdkit molecule the pipeline stores for ligand m.
MolOf(m) == m

\* MolDraw2DSVG(...).DrawMolecule(mol, legend, highlights); GetDrawingText():
\* the SVG text of a depiction of mol, with or without hydrogens, plain
\* (core "") or aligned to a common core. It is never the empty text.
draw(mol, mode, core) == <<mol, mode, core>>

EmptySvg == <<>>

\* {'2d_hs': hs, '2d_nohs': nohs}
pair(hs, nohs) == ("2d_hs" :> hs) @@ ("2d_nohs" :> nohs)

\* self.ligands_data[m]['images']
images_of(self, m) == self["ligands_data"][m]["images"]

\* self.ligands_data[m]['images'] = img
set_images(self, m, img) ==
    dict_set(self, "ligands_data",
             dict_set(self["ligands_data"], m,
                      dict_set(self["ligands_data"][m], "images", img)))

\* self.ligands_data[m].setdefault('images', {})
ensure_images(self, m) ==
    IF "images" \in DOMAIN self["ligands_data"][m] THEN self
    ELSE set_images(self, m, EmptyDict)

\* What self.ligands_data[m]['molecule'] raises: AttributeError when the
\* record has no ligands_data, KeyError when m or its molecule is missing.
mol_lookup_error(self, m) ==
    IF "ligands_data" \notin DOMAIN self THEN "AttributeError"
    ELSE IF m \notin DOMAIN self["ligands_data"] THEN "KeyError"
    ELSE IF "molecule" \notin DOMAIN self["ligands_data"][m] THEN "KeyError"
    ELSE "none"

\* ------------------------------------------------------------- update_mol_image

\* Mutant: the presence test looks for the keys in the molecule's record
\* instead of its images.
mol_cached_wrong_dict(self, m) ==
    {"2d_hs", "2d_nohs"} \subseteq DOMAIN self["ligands_data"][m]

\* {'2d_hs', '2d_nohs'}.issubset(self.ligands_data[mol_name]['images'])
mol_cached(self, m) ==
    {"2d_hs", "2d_nohs"} \subseteq DOMAIN images_of(self, m)

\* Mutant: the checkpoint is saved only when images were generated.
mol_saves_on_miss(save, hit) == save /\ ~hit

\* if save: self.save_data() - at function level, after the presence test.
mol_saves(save, hit) == save

\* Mutant: no fallback, the failed drawing leaves an empty depiction.
no_hs_svg_no_fallback(this_mol, svg_data_hs, nohs_fails) ==
    IF nohs_fails THEN EmptySvg ELSE draw(this_mol, "nohs", "")

\* svg_data_no_hs of lines 197-206: the try/except RuntimeError/else around
\* DrawMolecule of the molecule without hydrogens.
no_hs_svg(this_mol, svg_data_hs, nohs_fails) ==
    IF nohs_fails THEN svg_data_hs ELSE draw(this_mol, "nohs", "")

\* update_mol_image up to its save: [result, rec, renders, hit, log].
\* nohs_fails: DrawMolecule of the molecule without hydrogens raises
\* RuntimeError, and the depiction with hydrogens is stored under both keys.
mol_image_outcome(self, m, nohs_fails) ==
    LET err == mol_lookup_error(self, m)
    IN  IF err = "KeyError"
        THEN [result |-> "False", rec |-> self, renders |-> <<>>, hit |-> FALSE,
              log |-> {"warning"}]
        ELSE IF err # "none"
        THEN [result |-> err, rec |-> self, renders |-> <<>>, hit |-> FALSE,
              log |-> {}]
        ELSE
            LET r1 == ensure_images(self, m)
                this_mol == r1["ligands_data"][m]["molecule"]
                svg_data_hs == draw(this_mol, "hs", "")
                svg_data_no_hs == no_hs_svg(this_mol, svg_data_hs, nohs_fails)
            IN  IF mol_cached(r1, m)
                THEN [result |-> "None", rec |-> r1, renders |-> <<>>,
                      hit |-> TRUE, log |-> {}]
                ELSE [result |-> "None",
                      rec |-> set_images(r1, m,
                                 dict_update(images_of(r1, m),
                                             pair(svg_data_hs, svg_data_no_hs))),
                      renders |-> <<<<m, "hs">>, <<m, "nohs">>>>,
                      hit |-> FALSE,
                      log |-> IF nohs_fails THEN {"debug"} ELSE {}]

\* History of the update_mol_image calls for m after one more call: n counts
\* the calls (2 stands for two or more), rendered tells whether the first of
\* them invoked the renderer.
molcalls_after(h, m, o) ==
    IF m \in DOMAIN h
    THEN dict_set(h, m, [h[m] EXCEPT !.n = 2])
    ELSE dict_set(h, m, [n |-> 1, rendered |-> Len(o.renders) > 0])

\* What every image call sets on entry.
EnterImageCall(o, c) ==
    /\ pc = "idle"
    /\ rec' = o.rec
    /\ call' = c
    /\ log' = o.log
    /\ renders' = o.renders
    /\ disk0' = disk
    /\ UNCHANGED <<disk, temp, written, booted>>
    /\ UNCHANGED dirvars

\* The end of an image call: through save_data() when it saves, else a return.
LeaveImageCall(o, saves) ==
    IF o.result = "None" /\ saves
    THEN /\ pc' = "save_open"
         /\ result' = "running"
         /\ snap' = [path |-> o.rec["data_file"],
                     data |-> pickle_dump(dict_of(o.rec))]
    ELSE /\ pc' = "idle"
         /\ result' = o.result
         /\ snap' = NoSnap

update_mol_image(mol_name, save, nohs_fails) ==
    LET o == mol_image_outcome(rec, mol_name, nohs_fails)
    IN  /\ EnterImageCall(o, CallMol(mol_name, save, o.hit))
        /\ LeaveImageCall(o, mol_saves(save, o.hit))
        /\ molcalls' = IF mol_lookup_error(rec, mol_name) = "none"
                       THEN molcalls_after(molcalls, mol_name, o)
                       ELSE molcalls

\* ------------------------------------------------------------- update_pertubation_image

\* find_mcs([mol_a, mol_b], savestate=self, ...).smartsString: the common
\* core merge_topologies computes for the pair when core_smarts is None.
find_mcs(a, b) == "c1"

\* setdefault('images', {}) and ['images'].setdefault('perturbations', {})
ensure_perturbations(self, m) ==
    LET r1 == ensure_images(self, m)
    IN  set_images(r1, m, setdefault(images_of(r1, m), "perturbations", EmptyDict))

\* Mutant: the test only asks whether the molecule has a slot for the partner.
slot_present_any_core(self, m, other, core) ==
    other \in DOMAIN images_of(self, m)["perturbations"]

\* len(self.ligands_data[m]['images']['perturbations'][other][core]) > 0,
\* with KeyError taken as absent.
slot_present(self, m, other, core) ==
    LET p == images_of(self, m)["perturbations"]
    IN  /\ other \in DOMAIN p
        /\ core \in DOMAIN p[other]
        /\ Cardinality(DOMAIN p[other][core]) > 0

\* The try/assert/else of lines 239-249.
pert_cached(self, a, b, core) ==
    slot_present(self, a, b, core) /\ slot_present(self, b, a, core)

\* Mutant: the images are stored under the molecule's own name.
store_slot_own_name(self, each_name, other_mol, core, imgs) ==
    LET im == images_of(self, each_name)
        p == im["perturbations"]
    IN  set_images(self, each_name,
            dict_set(im, "perturbations",
                dict_set(p, each_name,
                    dict_set(setdefault(p, each_name, EmptyDict)[each_name],
                             core, imgs))))

\* perturbation_imgs.setdefault(other_mol, {})[core_smarts] = imgs
store_slot(self, each_name, other_mol, core, imgs) ==
    LET im == images_of(self, each_name)
        p == im["perturbations"]
    IN  set_images(self, each_name,
            dict_set(im, "perturbations",
                dict_set(p, other_mol,
                    dict_set(setdefault(p, other_mol, EmptyDict)[other_mol],
                             core, imgs))))

\* One pass of the loop of lines 259-298 for each_name.
render_pert(self, each_name, other_mol, core) ==
    LET each_mol == self["ligands_data"][each_name]["molecule"]
    IN  store_slot(self, each_name, other_mol, core,
                   pair(draw(each_mol, "hs", core), draw(each_mol, "nohs", core)))

both_renders(m) == <<<<m, "hs">>, <<m, "nohs">>>>

\* update_pertubation_image up to its save: [result, rec, renders, hit, log,
\* core]. fail_at: the pass of the loop (1 or 2) in which the renderer raises
\* (RemoveHs/DrawMolecule are not guarded here); 0 when it does not.
pert_outcome(self, a, b, core_smarts, fail_at) ==
    LET out(res, r, rn, h, c) ==
            [result |-> res, rec |-> r, renders |-> rn, hit |-> h,
             log |-> IF res = "None" /\ h THEN {} ELSE {"debug"}, core |-> c]
        raised(res, r) ==
            [result |-> res, rec |-> r, renders |-> <<>>, hit |-> FALSE,
             log |-> {}, core |-> core_smarts]
    IN  IF mol_lookup_error(self, a) = "AttributeError"
        THEN raised("AttributeError", self)
        ELSE IF a \notin DOMAIN self["ligands_data"]
        THEN raised("KeyError", self)
        ELSE
        LET r1 == ensure_perturbations(self, a)
        IN  IF b \notin DOMAIN r1["ligands_data"]
            THEN raised("KeyError", r1)
            ELSE
            LET r2 == ensure_perturbations(r1, b)
                core == IF core_smarts = NoCore THEN find_mcs(a, b) ELSE core_smarts
                r3 == render_pert(r2, a, b, core)
                r4 == render_pert(r3, b, a, core)
            IN  IF mol_lookup_error(r2, a) # "none" \/ mol_lookup_error(r2, b) # "none"
                THEN raised("KeyError", r2)
                ELSE IF pert_cached(r2, a, b, core)
                THEN out("None", r2, <<>>, TRUE, core)
                ELSE IF fail_at = 1
                THEN [out("RuntimeError", r2, both_renders(a), FALSE, core)
                        EXCEPT !.log = {"debug"}]
                ELSE IF fail_at = 2
                THEN out("RuntimeError", r3, both_renders(a) \o both_renders(b),
                         FALSE, core)
                ELSE out("None", r4, both_renders(a) \o both_renders(b), FALSE, core)

\* Mutant: the save is made at function level, as in update_mol_image.
pert_saves_always(save, hit) == save

\* if save: self.save_data() - reached only past the 'return None' of a hit.
pert_saves(save, hit) == save /\ ~hit

update_pertubation_image(mol_a_name, mol_b_name, core_smarts, save, fail_at) ==
    LET o == pert_outcome(rec, mol_a_name, mol_b_name, core_smarts, fail_at)
    IN  /\ EnterImageCall(o, CallPert(mol_a_name, mol_b_name, o.core, save, o.hit))
        /\ LeaveImageCall(o, pert_saves(save, o.hit))
        /\ UNCHANGED molcalls

\* ------------------------------------------------------------- image store

\* A slot of a perturbation cache as update_pertubation_image fills it.
good_slot(m, core) == pair(draw(MolOf(m), "hs", core), draw(MolOf(m), "nohs", core))

\* ligands_data with the given images for "A" and "B" (EmptyDict: no
\* 'images' item).
ligands(imgA, imgB) ==
    [m \in Mols |->
        LET img == IF m = "A" THEN imgA ELSE imgB
        IN  IF DOMAIN img = {} THEN [molecule |-> MolOf(m)]
            ELSE [molecule |-> MolOf(m), images |-> img]]

\* images holding only a perturbation slot for the partner.
pert_images(other, slot) == ("perturbations" :> (other :> ("c1" :> slot)))

\* The ligands_data the record starts with, as the pipeline assigned it or
\* an earlier checkpoint held it. Single images: none; one of the two
\* depictions; two empty depictions.
PriorMolLigands ==
    { ligands(EmptyDict, EmptyDict),
      ligands(("2d_hs" :> draw(MolOf("A"), "hs", "")), EmptyDict),
      ligands(pair(EmptySvg, EmptySvg), EmptyDict) }

\* Perturbation slots: none; both filled but A's with one key only, with
\* empty depictions, empty, or holding B's depiction; filled for A only.
PriorPertLigands ==
    { ligands(EmptyDict, EmptyDict),
      ligands(pert_images("B", ("2d_hs" :> draw(MolOf("A"), "hs", "c1"))),
              pert_images("A", good_slot("B", "c1"))),
      ligands(pert_images("B", pair(EmptySvg, EmptySvg)),
              pert_images("A", good_slot("B", "c1"))),
      ligands(pert_images("B", EmptyDict),
              pert_images("A", good_slot("B", "c1"))),
      ligands(pert_images("B", good_slot("B", "c1")),
              pert_images("A", good_slot("B", "c1"))),
      ligands(pert_images("B", good_slot("A", "c1")), EmptyDict) }

\* The state after construction from "run.pkl" (first run) and the
\* pipeline's assignment of ligands_data l.
InitWith(l) ==
    /\ pc = "idle"
    /\ rec = ("data_file" :> "run.pkl") @@ ("ligands_data" :> l)
    /\ disk = [p \in Paths |->
                 IF p = "run.pkl"
                 THEN FullFile(pickle_dump([data_file |-> "run.pkl"]))
                 ELSE AbsentFile]
    /\ temp = AbsentFile
    /\ call = CallSet("ligands_data")
    /\ result = "ok"
    /\ log = {}
    /\ disk0 = disk
    /\ snap = NoSnap
    /\ written = EmptyDict
    /\ booted = {"run.pkl"}
    /\ renders = <<>>
    /\ molcalls = EmptyDict
    /\ DirInit

UpdateMol(Saves) ==
    \E m \in Names, sv \in Saves, f \in BOOLEAN : update_mol_image(m, sv, f)

\* The pairs of distinct names.
DistinctPairs == {ab \in Names \X Names : ab[1] # ab[2]}

\* The calls with save in Saves, core_smarts in Cs or None, names in Ps.
UpdatePert(Saves, Cs, Ps) ==
    \E ab \in Ps, c \in Cs \cup {NoCore}, sv \in Saves, f \in {0, 1, 2} :
        update_pertubation_image(ab[1], ab[2], c, sv, f)

SaveStep ==
    \/ SaveOpenTemp
    \/ SaveDumpTemp
    \/ SaveReplace
    \/ TempVanishes
    \/ Kill

\* The state after construction from "run.pkl" (first run): the record holds
\* data_file only, the pipeline has assigned no ligands_data yet.
InitFresh ==
    /\ pc = "idle"
    /\ rec = [data_file |-> "run.pkl"]
    /\ disk = [p \in Paths |->
                 IF p = "run.pkl"
                 THEN FullFile(pickle_dump([data_file |-> "run.pkl"]))
                 ELSE AbsentFile]
    /\ temp = AbsentFile
    /\ call = CallInit("run.pkl", 0)
    /\ result = "ok"
    /\ log = {}
    /\ disk0 = [p \in Paths |-> AbsentFile]
    /\ snap = NoSnap
    /\ written = EmptyDict
    /\ booted = {"run.pkl"}
    /\ renders = <<>>
    /\ molcalls = EmptyDict
    /\ DirInit

\* Single-molecule images, with and without saving.
InitMol == InitFresh \/ \E l \in PriorMolLigands : InitWith(l)
NextMol == UpdateMol(BOOLEAN) \/ SaveStep
SpecMol == InitMol /\ [][NextMol]_vars

\* Perturbation images, with and without saving.
InitPert == \E l \in PriorPertLigands : InitWith(l)
NextPert == UpdatePert(BOOLEAN, Cores, DistinctPairs) \/ SaveStep
SpecPert == InitPert /\ [][NextPert]_vars

\* Both image operations on one record, one common core, not saving; a
\* molecule may be paired with itself.
InitImages == \E l \in PriorMolLigands \cup PriorPertLigands : InitWith(l)
NextImages ==
    \/ UpdateMol({FALSE})
    \/ UpdatePert({FALSE}, {"c1"}, DistinctPairs \cup {<<"A", "A">>})
SpecImages == InitImages /\ [][NextImages]_vars

\* ------------------------------------------------------------- names and paths

\* A path or a file name is the sequence of its pieces: directory names and
\* file stems, the separator, and extensions (the pieces that start with a
\* dot). '{}{}'.format(a, b) is a \o b.
Sep == "/"
Exts == {".svg"}

\* os.path.isabs(p)
IsAbs(p) == Len(p) > 0 /\ p[1] = Sep

\* os.path.join(a, b)
path_join(a, b) ==
    IF IsAbs(b) \/ Len(a) = 0 THEN b
    ELSE IF a[Len(a)] = Sep THEN a \o b
    ELSE a \o <<Sep>> \o b

\* The position of the last separator of p, 0 when p has none.
LastSep(p) ==
    LET S == {i \in 1..Len(p) : p[i] = Sep}
    IN  IF S = {} THEN 0 ELSE CHOOSE i \in S : \A j \in S : j <= i

\* os.path.basename(p): what follows the last separator.
basename(p) == SubSeq(p, LastSep(p) + 1, Len(p))

\* p.split(os.sep)[-1]: the last of the parts the separators delimit.
split_last(p) == SubSeq(p, LastSep(p) + 1, Len(p))

\* os.path.splitext(p): the tuple (root, ext); a leading dot of the base name
\* starts no extension.
splitext(p) ==
    IF Len(basename(p)) > 1 /\ p[Len(p)] \in Exts
    THEN <<SubSeq(p, 1, Len(p) - 1), <<p[Len(p)]>>>>
    ELSE <<p, <<>>>>

\* '{}'.format(t) of a tuple of two strings: its repr, ('root', 'ext').
format_tuple(t) == <<"('">> \o t[1] \o <<"', '">> \o t[2] \o <<"')">>

\* os_util.date_fmt(): the clock reading t as text, one text per second.
date_fmt(t) == <<ToString(t)>>

\* Mutant: the backup name is the name itself, without the timestamp.
backup_name_unstamped(self, name, t) == path_join(self.path, basename(name))

\* backup_name = os.path.join(self.path, '{}_{}{}'.format(
\*     os.path.basename(name), os_util.date_fmt(), os.path.splitext(name)))
backup_name(self, name, t) ==
    path_join(self.path,
              basename(name) \o <<"_">> \o date_fmt(t) \o format_tuple(splitext(name)))

\* ------------------------------------------------------------- file system

\* What is at a path: nothing, a regular file or a directory tree, complete
\* or cut short by a failed write or copy.
NoEntry == [kind |-> "none", data |-> "", complete |-> TRUE]
FileOf(data) == [kind |-> "file", data |-> data, complete |-> TRUE]
TruncatedFile == [kind |-> "file", data |-> "", complete |-> FALSE]
TreeOf(data) == [kind |-> "dir", data |-> data, complete |-> TRUE]
PartialTree(data) == [kind |-> "dir", data |-> data, complete |-> FALSE]

entry(f, p) == IF p \in DOMAIN f THEN f[p] ELSE NoEntry
remove(f, p) == [q \in DOMAIN f \ {p} |-> f[q]]

\* The failure injected into a call: none, or the step that fails (the write
\* of the primary copy, the rmtree, the write of the backup copy) and whether
\* it fails before writing anything or part-way.
NoFail == [step |-> "none", partial |-> FALSE]
Fails ==
    {NoFail} \cup
    {[step |-> st, partial |-> b] : st \in {"primary", "rmtree", "backup"},
                                   b \in BOOLEAN}

\* How a step goes under the injected failure.
how(fail, step) ==
    IF fail.step # step THEN "ok"
    ELSE IF fail.partial THEN "partial"
    ELSE "fail"

\* shutil.copy2(src, dst) writes into dst when dst is a directory.
copy2_target(f, src, dst) ==
    IF entry(f, dst).kind = "dir" THEN path_join(dst, basename(src.path)) ELSE dst

\* shutil.copy2(src, dst): [error, fs]. The source is opened first, then the
\* target is created or truncated and written.
copy2(f, src, dst, h) ==
    LET t == copy2_target(f, src, dst)
    IN  IF src.kind = "missing" THEN [error |-> "FileNotFoundError", fs |-> f]
        ELSE IF src.kind = "dir" THEN [error |-> "IsADirectoryError", fs |-> f]
        ELSE IF entry(f, t).kind = "dir" THEN [error |-> "IsADirectoryError", fs |-> f]
        ELSE IF h = "fail" THEN [error |-> "OSError", fs |-> f]
        ELSE IF h = "partial"
        THEN [error |-> "OSError", fs |-> dict_set(f, t, TruncatedFile)]
        ELSE [error |-> "none", fs |-> dict_set(f, t, FileOf(src.data))]

\* shutil.copytree(src, dst): [error, fs]. The source is listed first, then
\* dst is made (it must not exist), then the tree is copied.
copytree(f, src, dst, h) ==
    IF src.kind = "missing" THEN [error |-> "FileNotFoundError", fs |-> f]
    ELSE IF src.kind = "file" THEN [error |-> "NotADirectoryError", fs |-> f]
    ELSE IF dst \in DOMAIN f THEN [error |-> "FileExistsError", fs |-> f]
    ELSE IF h = "fail" THEN [error |-> "OSError", fs |-> f]
    ELSE IF h = "partial"
    THEN [error |-> "Error", fs |-> dict_set(f, dst, PartialTree(src.data))]
    ELSE [error |-> "none", fs |-> dict_set(f, dst, TreeOf(src.data))]

\* shutil.rmtree(p) of an existing p: [error, fs].
rmtree(f, p, h) ==
    IF entry(f, p).kind = "file" THEN [error |-> "NotADirectoryError", fs |-> f]
    ELSE IF h = "fail" THEN [error |-> "OSError", fs |-> f]
    ELSE IF h = "partial"
    THEN [error |-> "OSError", fs |-> dict_set(f, p, PartialTree(f[p].data))]
    ELSE [error |-> "none", fs |-> remove(f, p)]

\* ------------------------------------------------------------- UserStorageDirectory

\* The path __init__ settles on: the argument, or $XDG_CONFIG_HOME, or
\* $HOME/.config, or ./.config, each followed by fep_automate. env is the
\* environment, a mapping that has the variables that are set.
storage_path(path, env) ==
    LET base == IF Len(path) > 0 THEN path
                ELSE IF "XDG_CONFIG_HOME" \in DOMAIN env THEN env["XDG_CONFIG_HOME"]
                ELSE IF "HOME" \in DOMAIN env
                THEN path_join(env["HOME"], <<".config">>)
                ELSE path_join(<<".">>, <<".config">>)
    IN  path_join(base, <<"fep_automate">>)

\* __init__(path): the object with its path; os.mkdir makes the directory, an
\* existing one is accepted. mkdir_ok is false when the parent directory is
\* missing: FileNotFoundError leaves the constructor.
UsdConstruct(path, env, mkdir_ok) ==
    /\ usd = NoUsd
    /\ usd' = IF mkdir_ok THEN [path |-> storage_path(path, env)] ELSE NoUsd
    /\ ucall' = [NoUCall EXCEPT !.op = "init", !.name = path]
    /\ uresult' = IF mkdir_ok THEN "ok" ELSE "FileNotFoundError"
    /\ UNCHANGED <<fs, clock>>
    /\ UNCHANGED statevars

\* create_file(file_name, contents): [result, fs]. t is the clock reading.
create_file_outcome(self, f, file_name, contents, t, fail) ==
    LET primary == path_join(self.path, file_name)
        written_fs == dict_set(f, primary, FileOf(contents.val))
        backup == copy2(written_fs,
                        [path |-> primary, kind |-> "file", data |-> contents.val],
                        backup_name(self, file_name, t), how(fail, "backup"))
    IN  IF contents.type \notin {"str", "bytes"}
        THEN [result |-> "TypeError", fs |-> f]
        ELSE IF entry(f, primary).kind = "dir"
        THEN [result |-> "IsADirectoryError", fs |-> f]
        ELSE IF how(fail, "primary") = "fail"
        THEN [result |-> "OSError", fs |-> f]
        ELSE IF how(fail, "primary") = "partial"
        THEN [result |-> "OSError", fs |-> dict_set(f, primary, TruncatedFile)]
        ELSE IF backup.error # "none"
        THEN [result |-> backup.error, fs |-> backup.fs]
        ELSE [result |-> "True", fs |-> backup.fs]

\* What every storage call records.
StorageCall(o, c) ==
    /\ usd # NoUsd
    /\ fs' = o.fs
    /\ uresult' = o.result
    /\ ucall' = c
    /\ UNCHANGED <<usd, clock>>
    /\ UNCHANGED statevars

create_file(file_name, contents, fail) ==
    StorageCall(create_file_outcome(usd, fs, file_name, contents, clock, fail),
                [NoUCall EXCEPT !.op = "create_file", !.name = file_name,
                                !.stamp = clock])

\* The name store_file uses when dest_file is not given (lines 370-374).
derived_name(source_path, dest_file) ==
    IF Len(dest_file) > 0 THEN dest_file
    ELSE IF Len(basename(source_path)) = 0 THEN split_last(source_path)
    ELSE basename(source_path)

\* Mutant: only the name '.' is refused.
invalid_source_name_dot_only(source_path, dest_file) ==
    Len(dest_file) = 0 /\ basename(source_path) = <<".">>

\* if dest_file in ['', '.']: raise ValueError - tested only when dest_file
\* was not given.
invalid_source_name(source_path, dest_file) ==
    Len(dest_file) = 0 /\ derived_name(source_path, dest_file) \in {<<>>, <<".">>}

\* The except IsADirectoryError branch of store_file (lines 387-393): the
\* copytree, after an rmtree when the destination exists, and in the finally
\* clause the copytree of the backup, whose exception is the one raised.
store_tree(self, f, source, primary, backup, fail) ==
    LET first == copytree(f, source, primary, how(fail, "primary"))
        removed == rmtree(first.fs, primary, how(fail, "rmtree"))
        copied == IF first.error # "FileExistsError" THEN first
                  ELSE IF removed.error # "none" THEN removed
                  ELSE copytree(removed.fs, source, primary, how(fail, "primary"))
        saved == copytree(copied.fs, source, path_join(self.path, backup),
                          how(fail, "backup"))
    IN  [result |-> IF saved.error # "none" THEN saved.error
                    ELSE IF copied.error # "none" THEN copied.error
                    ELSE "True",
         fs |-> saved.fs]

\* store_file(source, dest_file): [result, fs, name]. t is the clock reading.
store_file_outcome(self, f, source, dest_file, t, fail) ==
    LET name == derived_name(source.path, dest_file)
        primary == path_join(self.path, name)
        backup == backup_name(self, name, t)
        c1 == copy2(f, source, primary, how(fail, "primary"))
        c2 == copy2(c1.fs, source, backup, how(fail, "backup"))
        copied == IF c1.error # "none" THEN c1 ELSE c2
    IN  IF invalid_source_name(source.path, dest_file)
        THEN [result |-> "ValueError", fs |-> f, name |-> name]
        ELSE IF copied.error = "none"
        THEN [result |-> "True", fs |-> copied.fs, name |-> name]
        ELSE IF copied.error = "IsADirectoryError"
        THEN LET tree == store_tree(self, copied.fs, source, primary, backup, fail)
             IN  [result |-> tree.result, fs |-> tree.fs, name |-> name]
        ELSE [result |-> copied.error, fs |-> copied.fs, name |-> name]

store_file(source, dest_file, fail) ==
    LET o == store_file_outcome(usd, fs, source, dest_file, clock, fail)
    IN  StorageCall(o, [NoUCall EXCEPT !.op = "store_file", !.name = o.name,
                                       !.stamp = clock])

\* Environment: a second passes.
Tick ==
    /\ clock < MaxClock
    /\ clock' = clock + 1
    /\ UNCHANGED <<usd, fs, ucall, uresult>>
    /\ UNCHANGED statevars

\* Arguments of the constructor: a given absolute path or none, and the
\* environments with XDG_CONFIG_HOME, with HOME only, and with neither (the
\* path is then relative to the current directory).
StoragePaths == {<<>>, <<Sep, "cfg">>}
Envs == {("XDG_CONFIG_HOME" :> <<Sep, "xdg">>) @@ ("HOME" :> <<Sep, "home">>),
         ("HOME" :> <<Sep, "home">>),
         EmptyDict}

\* Arguments of create_file: a name with an extension; text, bytes, or a
\* value that is neither.
FileNames == {<<"x", ".svg">>}
Contents == {[type |-> "str", val |-> "s"], [type |-> "bytes", val |-> "s"],
             [type |-> "int", val |-> "42"]}

\* Sources of store_file, outside the storage directory: a file, a path with
\* nothing at it, the current directory, a directory written with a trailing
\* separator, and a directory in two versions.
FileSources ==
    {[path |-> <<"in", Sep, "x", ".svg">>, kind |-> "file", data |-> "s"],
     [path |-> <<"in", Sep, "gone">>, kind |-> "missing", data |-> ""]}
BareSources ==
    {[path |-> <<".">>, kind |-> "dir", data |-> "T1"],
     [path |-> <<"in", Sep, "d", Sep>>, kind |-> "dir", data |-> "T1"]}
TreeSource(v) == [path |-> <<"in", Sep, "d">>, kind |-> "dir", data |-> v]

\* The calls of store_file: [source, dest_file].
FileStores == {<<src, <<>>>> : src \in FileSources}
UnnamedStores == {<<src, <<>>>> : src \in BareSources}
NamedStores == {<<src, <<"d">>>> : src \in BareSources}
TreeStores(Versions) == {<<TreeSource(v), <<>>>> : v \in Versions}

UsdConstructAny(Ps, Es) ==
    \E path \in Ps, env \in Es, ok \in BOOLEAN : UsdConstruct(path, env, ok)
CreateAny ==
    \E n \in FileNames, c \in Contents, fl \in Fails : create_file(n, c, fl)
StoreAny(Stores, Fs) ==
    \E sd \in Stores, fl \in Fs : store_file(sd[1], sd[2], fl)

\* The storage directory: the SavableState part stays as it starts.
InitDir ==
    /\ pc = "none"
    /\ rec = EmptyDict
    /\ disk = [p \in Paths |-> AbsentFile]
    /\ temp = AbsentFile
    /\ call = NoCall
    /\ result = "none"
    /\ log = {}
    /\ disk0 = disk
    /\ snap = NoSnap
    /\ written = EmptyDict
    /\ booted = {}
    /\ renders = <<>>
    /\ molcalls = EmptyDict
    /\ DirInit

\* Files and directories written into the storage directory of
\* $XDG_CONFIG_HOME; the I/O failures are those of the file copies and, for
\* a directory, the copy of the tree cut short.
NextDir ==
    \/ UsdConstructAny({<<>>}, {e \in Envs : "XDG_CONFIG_HOME" \in DOMAIN e})
    \/ CreateAny
    \/ StoreAny(FileStores \cup UnnamedStores, Fails)
    \/ StoreAny(TreeStores({"T1"}), {NoFail, [step |-> "primary", partial |-> TRUE]})
    \/ Tick
SpecDir == InitDir /\ [][NextDir]_vars

\* Directories stored again and again, in a storage directory with a given
\* path, in that of $HOME, and in one relative to the current directory.
NextTrees ==
    \/ UsdConstructAny(StoragePaths, {e \in Envs : "XDG_CONFIG_HOME" \notin DOMAIN e})
    \/ StoreAny(UnnamedStores \cup NamedStores \cup TreeStores({"T1", "T2"}), Fails)
    \/ Tick
SpecTrees == InitDir /\ [][NextTrees]_vars

\* A file and a directory stored under the same name, one after the other.
NextMixed ==
    \/ UsdConstructAny({<<>>}, {e \in Envs : "XDG_CONFIG_HOME" \in DOMAIN e})
    \/ StoreAny({<<src, <<"d">>>> : src \in FileSources} \cup TreeStores({"T1"}),
                Fails)
    \/ Tick
SpecMixed == InitDir /\ [][NextMixed]_vars

\* ------------------------------------------------------------- specification

ConstructAny == \E p \in Paths \cup {""}, v \in Verbosities : Construct(p, v)
SetX == \E v \in Vals : SetField("x", v)
SetDataFile == \E p \in Paths : SetField("data_file", p)
SaveAny == \E p \in Paths \cup {""} : save_data(p)

Next ==
    \/ ConstructAny
    \/ SetX
    \/ DelField
    \/ SetDataFile
    \/ SaveAny
    \/ SaveOpenTemp
    \/ SaveDumpTemp
    \/ SaveReplace
    \/ TempVanishes
    \/ Kill

Spec == Init /\ [][Next]_vars

\* ------------------------------------------------------------- properties

\* A save_data is running, or was the last thing that ran.
InSave == snap.path # ""

\* C1. Save atomicity: during and after save_data (also when the process is
\* stopped between the temporary write and the rename, and when the temporary
\* write failed) every checkpoint file is complete, and is either what it was
\* when save_data was entered or, at data_file only, the new snapshot.
C1_SaveAtomic ==
    InSave =>
        \A p \in Paths :
            /\ disk[p].kind # "partial"
            /\ \/ disk[p] = disk0[p]
               \/ p = snap.path /\ disk[p] = FullFile(snap.data)

\* C1 witness: the process was stopped after the temporary file was written
\* and before the rename; the checkpoint still holds the older snapshot.
C1_Witness ==
    /\ InSave
    /\ result = "killed"
    /\ temp = FullFile(snap.data)
    /\ disk0[snap.path].kind = "full"
    /\ disk[snap.path] = disk0[snap.path]
    /\ disk[snap.path] # FullFile(snap.data)

\* A construction that returned a record.
Loaded == call.op = "init" /\ result = "ok" /\ pc = "idle"

\* C2. Round trip: a record constructed from a path a save_data succeeded
\* on (and nothing has written since) has the keys and values the saved
\* record had at the time of the save.
C2_RoundTrip ==
    (Loaded /\ call.path \in DOMAIN written) => rec = written[call.path]

\* C2 witness: a record with a pipeline field, saved under a new name
\* through output_file, was loaded back from that path.
C2_Witness ==
    /\ Loaded
    /\ call.path \in DOMAIN written
    /\ "x" \in DOMAIN rec
    /\ call.path \notin booted
    /\ \E q \in Paths : q # call.path /\ q \in booted

\* The construction read an existing pickle, and what it held.
LoadedExisting == call.op = "init" /\ call.path # "" /\ disk0[call.path].kind = "full"
Stored == pickle_load(disk0[call.path].data)
StoredValid == LoadedExisting /\ "data_file" \in DOMAIN Stored

\* C3 as claimed: for every verbosity, a stored data_file that differs from
\* the path warns and is corrected; an equal one does not warn.
C3_Original ==
    StoredValid =>
        /\ rec["data_file"] = call.path
        /\ ("warning" \in log) <=> (Stored["data_file"] # call.path)

\* C3 as amended: the stored name is always corrected to the path; the
\* warning is handed to the logger exactly when the names differ and
\* verbosity >= 0 (with a negative verbosity nothing is logged).
C3_IdentityCorrection ==
    StoredValid =>
        /\ result = "ok"
        /\ rec["data_file"] = call.path
        /\ ("warning" \in log) <=>
               (Stored["data_file"] # call.path /\ call.verbosity >= 0)

\* C3 witness: a moved checkpoint was loaded and the warning was logged.
C3_Witness ==
    /\ StoredValid
    /\ Stored["data_file"] # call.path
    /\ "warning" \in log
    /\ rec["data_file"] = call.path

\* C4 as claimed: a pickle with no data_file fails the construction with
\* ValueError('Invalid progress file'), returns no record and leaves the
\* file unchanged.
C4_InvalidCheckpoint ==
    (LoadedExisting /\ "data_file" \notin DOMAIN Stored) =>
        /\ result = "ValueError"
        /\ pc = "none"
        /\ disk = disk0

\* C5. Bootstrap: constructing from a path with no file returns the record
\* {data_file: path} and creates the file; every later construction from the
\* file the bootstrap created succeeds, logs nothing and has data_file = path.
C5_Bootstrap ==
    (call.op = "init" /\ call.path \in booted) =>
        /\ result = "ok"
        /\ pc = "idle"
        /\ log = {}
        /\ rec["data_file"] = call.path
        /\ disk[call.path].kind = "full"
        /\ disk0[call.path].kind = "absent" => rec = [data_file |-> call.path]

\* C5 witness: a construction found the file an earlier bootstrap created.
C5_Witness ==
    /\ call.op = "init"
    /\ call.path \in booted
    /\ disk0[call.path].kind = "full"
    /\ result = "ok"

\* C6. Save failure outcomes: a failed temporary write ends the process with
\* SystemExit(1); a missing temporary file at the rename raises
\* FileNotFoundError to the caller, the process going on; neither returns
\* success nor changes a checkpoint file. A truncated temporary file is never
\* followed by a return to the caller.
C6_SaveFailure ==
    /\ result = "SystemExit(1)" => (pc = "none" /\ disk = disk0 /\ "error" \in log)
    /\ result = "FileNotFoundError" =>
          (pc = "idle" /\ disk = disk0 /\ temp.kind = "absent" /\ "error" \in log)
    /\ (InSave /\ pc = "idle" /\ temp.kind = "partial") => FALSE
    /\ (InSave /\ result \in {"True", "None"}) => disk[snap.path] = FullFile(snap.data)

\* C6 witness: the dump failed; the process exited with the checkpoint as
\* it was and a truncated temporary file.
C6_Witness ==
    /\ result = "SystemExit(1)"
    /\ temp.kind = "partial"
    /\ disk0[snap.path].kind = "full"
    /\ disk = disk0

\* C6 witness of the other outcome is reachable too: the rename found no file.
C6_WitnessRename == result = "FileNotFoundError" /\ pc = "idle"

\* ------------------------------------------------------------- image properties

\* Record self has a ligand record for m.
KnownIn(self, m) ==
    "ligands_data" \in DOMAIN self /\ m \in DOMAIN self["ligands_data"]

\* The keys of m's images in record self ({} when there are none).
ImageKeys(self, m) ==
    IF KnownIn(self, m) /\ "images" \in DOMAIN self["ligands_data"][m]
    THEN DOMAIN self["ligands_data"][m]["images"]
    ELSE {}

\* The '2d_hs'/'2d_nohs' items of m's images in record self.
MainImages(self, m) ==
    [k \in ImageKeys(self, m) \cap {"2d_hs", "2d_nohs"} |->
        self["ligands_data"][m]["images"][k]]

\* The slot of m's perturbation cache under (other, core); {} when missing.
SlotAt(self, m, other, core) ==
    IF "perturbations" \notin ImageKeys(self, m) THEN EmptyDict
    ELSE LET p == self["ligands_data"][m]["images"]["perturbations"]
         IN  IF other \in DOMAIN p /\ core \in DOMAIN p[other]
             THEN p[other][core] ELSE EmptyDict

\* Both artifacts exist and are non-empty.
ProperPair(d) ==
    /\ {"2d_hs", "2d_nohs"} \subseteq DOMAIN d
    /\ \A k \in {"2d_hs", "2d_nohs"} : d[k] # EmptySvg

\* Both artifacts exist, are non-empty and depict molecule m.
OwnPair(d, m) ==
    /\ ProperPair(d)
    /\ \A k \in {"2d_hs", "2d_nohs"} : d[k][1] = MolOf(m)

\* This step enters update_mol_image(m, ...).
MolCallStep(m) ==
    pc = "idle" /\ call'.op = "update_mol_image" /\ call'.a = m

\* This step enters update_pertubation_image(a, b, ...).
PertCallStep(ma, mb) ==
    /\ pc = "idle"
    /\ call'.op = "update_pertubation_image"
    /\ call'.a = ma
    /\ call'.b = mb

\* C7. Memoization idempotence: once update_mol_image has been called for
\* a known molecule, no later update_mol_image call for it invokes the
\* renderer and the stored '2d_hs'/'2d_nohs' never change; the first call
\* makes at most the two renders (with and without hydrogens).
C7_Memoized ==
    [][\A m \in Mols :
          /\ (m \in DOMAIN molcalls /\ pc' # "none") =>
                MainImages(rec', m) = MainImages(rec, m)
          /\ (m \in DOMAIN molcalls /\ MolCallStep(m)) => renders' = <<>>
          /\ (m \notin DOMAIN molcalls /\ MolCallStep(m)) =>
                renders' \in {<<>>, <<<<m, "hs">>, <<m, "nohs">>>>}
      ]_vars

\* C7 witness: a second call for a molecule whose first call rendered; it
\* rendered nothing and both artifacts are stored.
C7_Witness ==
    /\ call.op = "update_mol_image"
    /\ call.a \in DOMAIN molcalls
    /\ molcalls[call.a].n = 2
    /\ molcalls[call.a].rendered
    /\ renders = <<>>
    /\ pc = "idle"
    /\ ProperPair(MainImages(rec, call.a))

\* C8 as claimed: in an update_mol_image call that found both artifacts,
\* for either value of save, the record does not change, the renderer is
\* not invoked and no checkpoint file is written.
C8_Original ==
    [][(call'.op = "update_mol_image" /\ call'.hit) =>
          /\ renders' = <<>>
          /\ pc' # "none" => rec' = rec
          /\ disk' = disk
      ]_vars

\* C8 as amended: in an update_mol_image call that found both artifacts the
\* record does not change and the renderer is not invoked; with save false
\* no file is written and the call returns at once; with save true the call
\* goes on into save_data(), which writes the record to data_file.
C8_CacheHit ==
    [][(call'.op = "update_mol_image" /\ call'.hit) =>
          /\ renders' = <<>>
          /\ pc' # "none" => rec' = rec
          /\ ~call'.save => (disk' = disk /\ temp' = temp /\ pc' = "idle")
          /\ (call'.save /\ pc = "idle") => pc' = "save_open"
          /\ disk' # disk =>
                disk' = [disk EXCEPT ![rec["data_file"]] =
                                       FullFile(pickle_dump(dict_of(rec)))]
      ]_vars

\* C8 witness: a call with save set found both artifacts, returned, and the
\* checkpoint file is no longer what it was when the call began.
C8_Witness ==
    /\ call.op = "update_mol_image"
    /\ call.hit
    /\ call.save
    /\ result = "None"
    /\ pc = "idle"
    /\ disk # disk0
    /\ disk[rec["data_file"]] = FullFile(pickle_dump(dict_of(rec)))

\* C9 as claimed: an image call skips recomputation only if every slot it
\* consulted holds both artifacts, each non-empty.
C9_Original ==
    (call.hit /\ pc # "none") =>
        IF call.op = "update_mol_image"
        THEN ProperPair(MainImages(rec, call.a))
        ELSE /\ ProperPair(SlotAt(rec, call.a, call.b, call.core))
             /\ ProperPair(SlotAt(rec, call.b, call.a, call.core))

\* C9 as amended: update_mol_image skips recomputation exactly when both
\* keys '2d_hs' and '2d_nohs' are in the molecule's images, whatever their
\* values; update_pertubation_image skips exactly when A's slot under
\* (B, core) and B's slot under (A, core) each hold at least one key,
\* whatever the keys and values. A call that does not skip invokes the
\* renderer.
C9_PresenceCheck ==
    [][/\ \A m \in Mols :
            (MolCallStep(m) /\ KnownIn(rec, m)) =>
                /\ call'.hit <=> {"2d_hs", "2d_nohs"} \subseteq ImageKeys(rec, m)
                /\ call'.hit <=> renders' = <<>>
       /\ \A ma \in Mols, mb \in Mols :
            PertCallStep(ma, mb) =>
                /\ call'.hit <=>
                      /\ DOMAIN SlotAt(rec, ma, mb, call'.core) # {}
                      /\ DOMAIN SlotAt(rec, mb, ma, call'.core) # {}
                /\ call'.hit <=> renders' = <<>>
      ]_vars

\* C9 witness: update_pertubation_image skipped recomputation although A's
\* slot holds one of the two keys only.
C9_Witness ==
    /\ call.op = "update_pertubation_image"
    /\ call.hit
    /\ pc = "idle"
    /\ DOMAIN SlotAt(rec, call.a, call.b, call.core) = {"2d_hs"}

\* update_pertubation_image returned normally.
ReturnedPert ==
    call.op = "update_pertubation_image" /\ result = "None" /\ pc = "idle"

\* C10 as claimed: after a call that returned normally, whatever the cache
\* held before, both symmetric slots hold a non-empty pair of artifacts
\* depicting the molecule that owns the cache.
C10_Original ==
    ReturnedPert =>
        /\ OwnPair(SlotAt(rec, call.a, call.b, call.core), call.a)
        /\ OwnPair(SlotAt(rec, call.b, call.a, call.core), call.b)

\* C10 as amended: after a call that returned normally and did not find both
\* slots already filled, both symmetric slots hold a non-empty pair of
\* artifacts depicting the molecule that owns the cache; a call that found
\* both slots holding at least one key returns with the record as it was.
C10_Symmetry ==
    /\ [](ReturnedPert =>
            IF call.hit
            THEN /\ DOMAIN SlotAt(rec, call.a, call.b, call.core) # {}
                 /\ DOMAIN SlotAt(rec, call.b, call.a, call.core) # {}
            ELSE /\ OwnPair(SlotAt(rec, call.a, call.b, call.core), call.a)
                 /\ OwnPair(SlotAt(rec, call.b, call.a, call.core), call.b))
    /\ [][(pc = "idle" /\ call'.op = "update_pertubation_image" /\ call'.hit)
            => rec' = rec]_vars

\* C10 witness: a call under a core with no slot yet rendered both molecules
\* and returned with both slots filled.
C10_Witness ==
    /\ ReturnedPert
    /\ ~call.hit
    /\ Len(renders) = 4
    /\ call.core = "c2"
    /\ OwnPair(SlotAt(rec, call.a, call.b, call.core), call.a)
    /\ OwnPair(SlotAt(rec, call.b, call.a, call.core), call.b)

\* C11. Perturbation cache hit has no side effects: a call of
\* update_pertubation_image(A, B, descriptor, save) with an explicit
\* descriptor that finds a non-empty pair of artifacts in both symmetric
\* slots returns None at once, for either value of save: the renderer is not
\* invoked, no field of the record changes and no file is written.
C11_HitNoSideEffects ==
    [][\A ab \in Mols \X Mols, c \in Cores, sv \in BOOLEAN, f \in {0, 1, 2} :
          (/\ update_pertubation_image(ab[1], ab[2], c, sv, f)
           /\ ProperPair(SlotAt(rec, ab[1], ab[2], c))
           /\ ProperPair(SlotAt(rec, ab[2], ab[1], c)))
          => /\ renders' = <<>>
             /\ rec' = rec
             /\ disk' = disk
             /\ temp' = temp
             /\ pc' = "idle"
             /\ result' = "None"
      ]_vars

\* C11 witness: a call with save set and the descriptor "c2" (the one only a
\* caller supplies) found both slots filled and returned; no file changed.
C11_Witness ==
    /\ call.op = "update_pertubation_image"
    /\ call.core = "c2"
    /\ call.save
    /\ call.hit
    /\ ProperPair(SlotAt(rec, call.a, call.b, call.core))
    /\ ProperPair(SlotAt(rec, call.b, call.a, call.core))
    /\ pc = "idle"
    /\ result = "None"
    /\ renders = <<>>
    /\ disk = disk0

\* update_mol_image was called for a molecule id that has no record in the
\* store, and is over.
UnknownMolCall ==
    /\ call.op = "update_mol_image"
    /\ ~KnownIn(rec, call.a)
    /\ pc # "none"

\* C12 as claimed: update_mol_image for a molecule id with no record in the
\* store (also a store with no ligand data at all) returns False without
\* raising, renders nothing, leaves the record unchanged and does not save,
\* whatever the save flag.
C12_NotFoundReported ==
    /\ [](UnknownMolCall =>
            /\ result = "False"
            /\ pc = "idle"
            /\ renders = <<>>
            /\ disk = disk0
            /\ temp = AbsentFile)
    /\ [][(call'.op = "update_mol_image" /\ ~KnownIn(rec', call'.a)
            /\ pc' # "none") => rec' = rec]_vars

\* ------------------------------------------------------------- storage properties

\* The last storage call wrote into the directory and returned True.
Stored_ok == ucall.op \in {"create_file", "store_file"} /\ uresult = "True"

\* The backup name the specification gives: stem, underscore, timestamp,
\* extension.
SpecBackupName(name, t) ==
    LET base == basename(name)
        dotted == Len(base) > 1 /\ base[Len(base)] \in Exts
        stem == IF dotted THEN SubSeq(base, 1, Len(base) - 1) ELSE base
        ext == IF dotted THEN <<base[Len(base)]>> ELSE <<>>
    IN  stem \o <<"_">> \o date_fmt(t) \o ext

\* C13 as claimed: after a successful create_file(name, contents) or
\* store_file(..., dest_file) the storage directory holds the primary file
\* under its name and a backup under '<stem>_<timestamp><extension>', with
\* the same contents.
C13_BackupNaming ==
    Stored_ok =>
        LET primary == path_join(usd.path, ucall.name)
            backup == path_join(usd.path, SpecBackupName(ucall.name, ucall.stamp))
        IN  /\ entry(fs, primary).kind # "none"
            /\ entry(fs, primary).complete
            /\ entry(fs, backup) = entry(fs, primary)

\* C14 as claimed: when store_file has stored a directory under a name, a
\* second store_file of a directory under that name, made at any time (in
\* the same second too) and meeting no I/O failure, returns True, leaves the
\* destination a complete copy of the source and a backup tree of it.
C14_DirectoryCollision ==
    [][\A v \in {"T1", "T2"} :
          (/\ store_file(TreeSource(v), <<>>, NoFail)
           /\ ucall.op = "store_file"
           /\ ucall.name = <<"d">>
           /\ uresult = "True"
           /\ entry(fs, path_join(usd.path, <<"d">>)).kind = "dir")
          => /\ uresult' = "True"
             /\ entry(fs', path_join(usd.path, <<"d">>)) = TreeOf(v)
             /\ \E q \in DOMAIN fs' :
                    q # path_join(usd.path, <<"d">>) /\ fs'[q] = TreeOf(v)
      ]_vars

\* The part of C14 the code meets: the second call made in a later second.
C14_LaterSecond ==
    [][\A v \in {"T1", "T2"} :
          (/\ store_file(TreeSource(v), <<>>, NoFail)
           /\ ucall.op = "store_file"
           /\ ucall.name = <<"d">>
           /\ uresult = "True"
           /\ ucall.stamp < clock
           /\ entry(fs, path_join(usd.path, <<"d">>)).kind = "dir")
          => /\ uresult' = "True"
             /\ entry(fs', path_join(usd.path, <<"d">>)) = TreeOf(v)
             /\ \E q \in DOMAIN fs' :
                    q # path_join(usd.path, <<"d">>) /\ fs'[q] = TreeOf(v)
      ]_vars

\* This step is a create_file or store_file call.
StorageStep ==
    /\ usd # NoUsd
    /\ usd' = usd
    /\ clock' = clock
    /\ ucall'.op \in {"create_file", "store_file"}

\* Path q lies in the storage directory and carries the timestamp of t.
StampedIn(q, t) ==
    /\ Len(q) > Len(usd.path)
    /\ SubSeq(q, 1, Len(usd.path)) = usd.path
    /\ \E i \in 1..Len(q) : q[i] = ToString(t)

\* Path q is p, or lies in the directory p.
AtOrIn(q, p) == Len(q) >= Len(p) /\ SubSeq(q, 1, Len(p)) = p

\* In f a primary copy under name (at the name, or in the directory of that
\* name) is complete and a backup stamped t holds the same.
BothComplete(f, name, t) ==
    \E p \in DOMAIN f, q \in DOMAIN f :
        /\ AtOrIn(p, path_join(usd.path, name))
        /\ ~StampedIn(p, t)
        /\ f[p].complete
        /\ StampedIn(q, t)
        /\ f[q] = f[p]

\* The step left no new file or tree: what differs is what a failed rmtree
\* left of an old tree.
NothingNew ==
    \A q \in DOMAIN fs' :
        /\ q \in DOMAIN fs
        /\ \/ fs'[q] = fs[q]
           \/ fs[q].kind = "dir" /\ fs'[q] = PartialTree(fs[q].data)

\* C15 as claimed: a create_file or store_file call that returns True leaves
\* the primary copy and the timestamped backup complete; a call that raises,
\* at whatever step, leaves neither a new primary nor a new backup.
C15_Original ==
    [][StorageStep =>
          IF uresult' = "True"
          THEN BothComplete(fs', ucall'.name, ucall'.stamp)
          ELSE NothingNew
      ]_vars

\* C15 as amended: a call that returns True leaves the primary copy and the
\* timestamped backup complete; a call that raises TypeError, ValueError or,
\* for a missing source, FileNotFoundError has written nothing; any other
\* raising call cleans nothing up: the primary path and the backup path of
\* this call, and no other path, hold whatever was written before the
\* failing step.
C15_PrimaryAndBackup ==
    [][StorageStep =>
          /\ uresult' = "True" => BothComplete(fs', ucall'.name, ucall'.stamp)
          /\ uresult' \in {"TypeError", "ValueError", "FileNotFoundError"}
                => fs' = fs
          /\ \A q \in DOMAIN fs \cup DOMAIN fs' :
                entry(fs', q) # entry(fs, q) =>
                    \/ AtOrIn(q, path_join(usd.path, ucall'.name))
                    \/ StampedIn(q, ucall'.stamp)
      ]_vars

\* C15 witness: create_file raised while copying the backup; the primary
\* file is left complete beside a truncated backup.
C15_Witness ==
    /\ ucall.op = "create_file"
    /\ uresult = "OSError"
    /\ entry(fs, path_join(usd.path, ucall.name)) = FileOf("s")
    /\ \E q \in DOMAIN fs : StampedIn(q, ucall.stamp) /\ fs[q] = TruncatedFile

\* C16. Argument validation has no partial side effects: create_file with
\* contents that are neither str nor bytes raises TypeError, store_file with
\* no dest_file and a source whose name is empty or '.' raises ValueError,
\* and a call that raises either has changed nothing in the directory.
C16_Validation ==
    /\ [](usd # NoUsd =>
            /\ \A n \in FileNames, c \in Contents, fl \in Fails :
                  c.type \notin {"str", "bytes"} =>
                      create_file_outcome(usd, fs, n, c, clock, fl)
                          = [result |-> "TypeError", fs |-> fs]
            /\ \A src \in BareSources, fl \in Fails :
                  LET o == store_file_outcome(usd, fs, src, <<>>, clock, fl)
                  IN  o.result = "ValueError" /\ o.fs = fs)
    /\ [][(StorageStep /\ uresult' \in {"TypeError", "ValueError"})
            => fs' = fs]_vars

\* C16 witness: store_file refused a bare directory path; the files stored
\* before are still there.
C16_Witness ==
    /\ ucall.op = "store_file"
    /\ uresult = "ValueError"
    /\ ucall.name = <<>>
    /\ \E q \in DOMAIN fs : fs[q].complete

\* Molecule m's perturbation cache in record self has an entry under
\* (other, core).
HasEntry(self, m, other, core) ==
    /\ "perturbations" \in ImageKeys(self, m)
    /\ LET p == self["ligands_data"][m]["images"]["perturbations"]
       IN  other \in DOMAIN p /\ core \in DOMAIN p[other]

\* Every entry of a perturbation cache has its counterpart.
SymmetricCache(self) ==
    \A ma \in Names, mb \in Names, c \in Cores :
        HasEntry(self, ma, mb, c) <=> HasEntry(self, mb, ma, c)

\* C17. Symmetry as a state invariant: A's perturbation cache has an entry
\* under (B, descriptor) exactly when B's has one under (A, descriptor), in
\* every state of the store; no step, an update_pertubation_image call that
\* raises part-way included, leads from a symmetric store to one that is not.
C17_SymmetryKept ==
    [][SymmetricCache(rec) => SymmetricCache(rec')]_vars

\* C18. Hydrogen-removal fallback: an update_mol_image call for a known
\* molecule that finds '2d_hs' or '2d_nohs' missing does not fail; when the
\* renderer rejects the molecule without hydrogens it stores the depiction
\* with hydrogens under both keys, otherwise the depiction with hydrogens
\* under '2d_hs' and the one without under '2d_nohs'.
C18_HydrogenFallback ==
    [][\A m \in Mols, sv \in BOOLEAN, f \in BOOLEAN :
          ( /\ update_mol_image(m, sv, f)
            /\ mol_lookup_error(rec, m) = "none"
            /\ ~({"2d_hs", "2d_nohs"} \subseteq ImageKeys(rec, m)) )
          => /\ result' \in {"None", "running"}
             /\ MainImages(rec', m) =
                  IF f
                  THEN pair(draw(MolOf(m), "hs", ""), draw(MolOf(m), "hs", ""))
                  ELSE pair(draw(MolOf(m), "hs", ""), draw(MolOf(m), "nohs", ""))
      ]_vars

\* C18 witness: the renderer rejected the molecule without hydrogens, the
\* call returned and both keys hold the depiction with hydrogens.
C18_Witness ==
    /\ call.op = "update_mol_image"
    /\ ~call.hit
    /\ result = "None"
    /\ log = {"debug"}
    /\ MainImages(rec, call.a) =
          pair(draw(MolOf(call.a), "hs", ""), draw(MolOf(call.a), "hs", ""))

\* The last call made is save_data(output_file=X) with a non-empty X.
SaveTo == call.op = "save_data" /\ call.path # ""

\* C19. save_data(output_file=X) with a non-empty X assigns data_file = X
\* before anything is written: data_file is X from the entry of the call on,
\* at every step of it and after the call raised FileNotFoundError (the old
\* value is not put back; when the process ends, it ends with data_file = X),
\* and a later save_data() with no argument leaves data_file alone and
\* writes to it.
C19_TargetAssignedFirst ==
    /\ []((SaveTo /\ pc # "none") => rec["data_file"] = call.path)
    /\ [][/\ (pc = "idle" /\ call'.op = "save_data" /\ call'.path # "")
               => (disk' = disk /\ temp' = temp /\ snap'.path = call'.path)
          /\ (pc = "idle" /\ call'.op = "save_data" /\ call'.path = "")
               => (rec' = rec /\ snap'.path = rec["data_file"])
          /\ (pc = "save_replace" /\ disk' # disk)
               => disk' = [disk EXCEPT ![rec["data_file"]] = FullFile(snap.data)]
      ]_vars

\* C19 witness: save_data(output_file=X) raised FileNotFoundError at the
\* rename; X has no file, the checkpoint the record was kept in so far is
\* another file, and data_file is X.
C19_Witness ==
    /\ SaveTo
    /\ pc = "idle"
    /\ result = "FileNotFoundError"
    /\ rec["data_file"] = call.path
    /\ disk[call.path].kind = "absent"
    /\ \E q \in DOMAIN written : q # call.path /\ disk[q].kind = "full"

\* The checkpoint files this program produced: those a save_data that
\* succeeded wrote last, and those the first-run bootstrap created.
Produced == DOMAIN written \cup booted

\* C20. Every checkpoint file the program produced is self-describing: it
\* is complete and its data_file item is the path it was written to, so a
\* construction from that path, at any verbosity, raises nothing and logs no
\* warning.
C20_SelfDescribing ==
    \A p \in Produced :
        /\ disk[p].kind = "full"
        /\ "data_file" \in DOMAIN pickle_load(disk[p].data)
        /\ pickle_load(disk[p].data)["data_file"] = p
        /\ \A v \in Verbosities :
              LET o == init_outcome(p, v, disk)
              IN  o.error = "none" /\ o.log = {} /\ o.disk = disk

\* C20 witness: a record with a pipeline field was saved under a path other
\* than the one it was constructed from, and a construction from the saved
\* file, with warnings enabled, returned it without a warning.
C20_Witness ==
    /\ call.op = "init"
    /\ call.verbosity >= 0
    /\ call.path \in DOMAIN written
    /\ disk0[call.path].kind = "full"
    /\ "x" \in DOMAIN pickle_load(disk0[call.path].data)
    /\ \E q \in Produced : q # call.path
    /\ result = "ok"
    /\ log = {}
    /\ rec["data_file"] = call.path

====
